---- MODULE Spec2Model ----
(***************************************************************************)
(* Model of rbd_snapshots.py (RBD Snapshot Manager).                       *)
(*                                                                         *)
(* Several invocations of the script target the same pool/image.  Each     *)
(* external command (rbd ..., ceph config-key ...) is one atomic step; the *)
(* control flow of one invocation is the one of the __main__ block with    *)
(* its try / except Exception / finally, where die_ok and die_error raise  *)
(* SystemExit (not caught by `except Exception`, but the finally clause    *)
(* still runs release_lock).                                               *)
(***************************************************************************)
EXTENDS Integers, Sequences, FiniteSets, TLC

\* ---------------------------------------------------------------- bounds
NumProcs == 2          \* invocations that may run concurrently
MaxInitCounter == 3    \* initial matching snapshots have counters < this
MaxKeep == 2           \* --n_keep is drawn from 0..MaxKeep

Procs == 1..NumProcs

\* ------------------------------------------------- configuration (globals)
POOL == "rbd-pool1"
SUFFIX == "DAILY"
OtherSuffix == "WEEKLY"

\* Value of the lock key when `ceph config-key exists` reports it missing.
NoLock == 0
\* Owner tokens (_LOCK_VALUE = nodename@time()): unique per live invocation.
Tokens == 1..(NumProcs + 1)

\* --------------------------------------------------------- snapshot names
\* A snapshot name "<lead>_rbd_snap_manager_<sfx>".  numeric = FALSE stands
\* for a name whose leading token is not an integer (int() raises ValueError).
SNAPSHOT_NAME(counter, suffix) == [numeric |-> TRUE, lead |-> counter, sfx |-> suffix]

BadName == [numeric |-> FALSE, lead |-> 0, sfx |-> SUFFIX]

\* int(name.split('_')[0]) for a name it parses
s_number(name) == name.lead

\* snap['name'].endswith(SUFFIX)
interesting(cat) == {s \in cat : s.sfx = SUFFIX}

\* sorted(..., key=counter, reverse=True): highest counter first
RECURSIVE SortAscending(_)
SortAscending(S) ==
    IF S = {} THEN <<>>
    ELSE LET m == CHOOSE s \in S : \A t \in S : s_number(s) <= s_number(t)
         IN  <<m>> \o SortAscending(S \ {m})

RECURSIVE sorted_reverse(_)
sorted_reverse(S) ==
    IF S = {} THEN <<>>
    ELSE LET m == CHOOSE s \in S : \A t \in S : s_number(t) <= s_number(s)
         IN  <<m>> \o sorted_reverse(S \ {m})

\* list_snapshots(): outcome and list for a catalog and a set of rbd pools
list_snapshots(cat, pools) ==
    IF POOL \notin pools
    THEN [status |-> "die_error", list |-> <<>>]
    ELSE IF \E s \in interesting(cat) : ~s.numeric
    THEN [status |-> "ValueError", list |-> <<>>]
    ELSE [status |-> "ok", list |-> sorted_reverse(interesting(cat))]

\* ------------------------------------------------------------- lock store
\* `ceph config-key exists`: ret != 0 and "doesn't" in stderr
AlwaysAbsent(stored) == TRUE
lock_absent(stored) == stored = NoLock

\* is_our_lock(): lock_owner == _LOCK_VALUE and ret == 0
NeverOurs(stored, value) == FALSE
AlwaysOurs(stored, value) == TRUE
is_our_lock(stored, value) == stored # NoLock /\ stored = value

\* ---------------------------------------------------------------- rotation
\* new_name = _SNAPSHOT_NAME.format(counter=s_number + 1, suffix=SUFFIX)
SkipCounter(name) == SNAPSHOT_NAME(s_number(name) + 2, SUFFIX)
new_name(name) == SNAPSHOT_NAME(s_number(name) + 1, SUFFIX)

\* create_snapshot(): snapshot_name = _SNAPSHOT_NAME.format(counter=0, ...)
FirstIsOne == SNAPSHOT_NAME(1, SUFFIX)
snapshot_name == SNAPSHOT_NAME(0, SUFFIX)

\* --------------------------------------------------------------- retention
\* cleanup(): len(updated_snapshot_list) < N_KEEP  -> die_ok
SkipsAtLimit(len, keep) == len <= keep
SkipsAlways(len, keep) == TRUE
cleanup_skips(len, keep) == len < keep

\* cleanup(): snapshot_to_remove = updated_snapshot_list[0]['name']
RemoveNewest(list) == list[Len(list)]
snapshot_to_remove(list) == list[1]

\* `if not DRYRUN:` in front of every rename, create and remove command
IgnoresDryrun(dryrun) == TRUE
issues_commands(dryrun) == ~dryrun

\* exit(code) as seen by the parent process
ExitStatus(code) == code % 256

\* ------------------------------------------------------------------ state
VARIABLES
    catalog,                \* snapshot names of POOL/IMAGE in the cluster
    lock,                   \* value stored under _LOCK_NAME, or NoLock
    rbd_pools,              \* pools tagged rbd in `ceph osd dump`
    N_KEEP,                 \* --n_keep
    DRYRUN,                 \* --dryrun
    pc,                     \* position of each invocation
    LOCK_VALUE,             \* _LOCK_VALUE of each invocation
    snapshot_list,          \* snapshot_list read in __main__
    idx,                    \* loop position of rename_snapshots
    updated_snapshot_list,  \* list read by cleanup()
    pending,                \* exception state when the finally clause runs
    exit_code,              \* argument of the exit() that ended the process
    lock_present,           \* history: lock_exists found another owner's token
    race_lost,              \* history: the re-read after lock_create gave another value
    acquired,               \* history: acquire_lock returned normally
    calls,                  \* history: rename/create/remove commands issued
    removed                 \* history: snapshots removed by this invocation

vars == <<catalog, lock, rbd_pools, N_KEEP, DRYRUN, pc, LOCK_VALUE, snapshot_list,
          idx, updated_snapshot_list, pending, exit_code, lock_present, race_lost,
          acquired, calls, removed>>

config == <<rbd_pools, N_KEEP, DRYRUN>>

\* Initial catalogs: any set of SUFFIX snapshots with counters below
\* MaxInitCounter, beside a snapshot of another schedule and, possibly, a
\* SUFFIX snapshot made by hand whose name does not start with a number.
InitCatalogs ==
    { {SNAPSHOT_NAME(c, SUFFIX) : c \in C} \cup {SNAPSHOT_NAME(0, OtherSuffix)} \cup X :
        C \in SUBSET (0..(MaxInitCounter - 1)),
        X \in {{}, {BadName}} }

Init ==
    /\ catalog \in InitCatalogs
    /\ lock = NoLock
    /\ rbd_pools \in {{}, {POOL}}
    /\ N_KEEP \in 0..MaxKeep
    /\ DRYRUN \in BOOLEAN
    /\ pc = [p \in Procs |-> "idle"]
    /\ LOCK_VALUE = [p \in Procs |-> p]
    /\ snapshot_list = [p \in Procs |-> <<>>]
    /\ idx = [p \in Procs |-> 1]
    /\ updated_snapshot_list = [p \in Procs |-> <<>>]
    /\ pending = [p \in Procs |-> "none"]
    /\ exit_code = [p \in Procs |-> 0]
    /\ lock_present = [p \in Procs |-> FALSE]
    /\ race_lost = [p \in Procs |-> FALSE]
    /\ acquired = [p \in Procs |-> FALSE]
    /\ calls = [p \in Procs |-> 0]
    /\ removed = [p \in Procs |-> {}]

Terminated(p) == pc[p] \in {"idle", "done"}

\* ---------------------------------------------------------------- helpers
\* die_ok / die_error (SystemExit) or an Exception (ValueError, IndexError:
\* caught and logged by `except Exception`) inside the try block: control
\* passes to the finally clause (release_lock).
Raise(p, what) ==
    /\ pending' = [pending EXCEPT ![p] = what]
    /\ pc' = [pc EXCEPT ![p] = "release_get"]

\* exit code of a process whose finally clause returned normally
ExitsZero(p) == 0
FinalCode(p) == IF pending[p] = "die_error" THEN -1 ELSE 0

\* ---------------------------------------------------------------- actions
\* A new invocation of the script (cron) with a fresh _LOCK_VALUE; the
\* sleep of a random duration is the arbitrary delay before its first step.
Start(p) ==
    /\ Terminated(p)
    /\ LET free == {t \in Tokens : t # lock /\ \A q \in Procs \ {p} : LOCK_VALUE[q] # t}
       IN  LOCK_VALUE' = [LOCK_VALUE EXCEPT ![p] = CHOOSE t \in free : \A u \in free : t <= u]
    /\ pc' = [pc EXCEPT ![p] = "list"]
    /\ snapshot_list' = [snapshot_list EXCEPT ![p] = <<>>]
    /\ idx' = [idx EXCEPT ![p] = 1]
    /\ updated_snapshot_list' = [updated_snapshot_list EXCEPT ![p] = <<>>]
    /\ pending' = [pending EXCEPT ![p] = "none"]
    /\ exit_code' = [exit_code EXCEPT ![p] = 0]
    /\ lock_present' = [lock_present EXCEPT ![p] = FALSE]
    /\ race_lost' = [race_lost EXCEPT ![p] = FALSE]
    /\ acquired' = [acquired EXCEPT ![p] = FALSE]
    /\ calls' = [calls EXCEPT ![p] = 0]
    /\ removed' = [removed EXCEPT ![p] = {}]
    /\ UNCHANGED <<catalog, lock, config>>

\* snapshot_list = list_snapshots()
ListSnapshots(p) ==
    /\ pc[p] = "list"
    /\ LET r == list_snapshots(catalog, rbd_pools)
       IN  IF r.status = "ok"
           THEN /\ snapshot_list' = [snapshot_list EXCEPT ![p] = r.list]
                /\ pc' = [pc EXCEPT ![p] = "lock_exists"]
                /\ UNCHANGED pending
           ELSE /\ Raise(p, r.status)
                /\ UNCHANGED snapshot_list
    /\ UNCHANGED <<catalog, lock, config, LOCK_VALUE, idx, updated_snapshot_list,
                   exit_code, lock_present, race_lost, acquired, calls, removed>>

\* acquire_lock(): ceph config-key exists
LockExists(p) ==
    /\ pc[p] = "lock_exists"
    /\ lock_present' = [lock_present EXCEPT ![p] = lock # NoLock /\ lock # LOCK_VALUE[p]]
    /\ IF lock_absent(lock)
       THEN pc' = [pc EXCEPT ![p] = "lock_create"] /\ UNCHANGED pending
       ELSE Raise(p, "die_ok")
    /\ UNCHANGED <<catalog, lock, config, LOCK_VALUE, snapshot_list, idx,
                   updated_snapshot_list, exit_code, race_lost, acquired, calls, removed>>

\* acquire_lock(): ceph config-key set (overwrites whatever is stored)
LockCreate(p) ==
    /\ pc[p] = "lock_create"
    /\ lock' = LOCK_VALUE[p]
    /\ pc' = [pc EXCEPT ![p] = "lock_verify"]
    /\ UNCHANGED <<catalog, config, LOCK_VALUE, snapshot_list, idx, updated_snapshot_list,
                   pending, exit_code, lock_present, race_lost, acquired, calls, removed>>

\* position after acquire_lock / after one pass of the rename loop
AfterRename(p, i) == IF i > Len(snapshot_list[p]) THEN "create" ELSE "rename"

\* acquire_lock(): if not is_our_lock(): die_error
LockVerify(p) ==
    /\ pc[p] = "lock_verify"
    /\ race_lost' = [race_lost EXCEPT ![p] = lock # LOCK_VALUE[p]]
    /\ IF is_our_lock(lock, LOCK_VALUE[p])
       THEN /\ acquired' = [acquired EXCEPT ![p] = TRUE]
            /\ pc' = [pc EXCEPT ![p] = AfterRename(p, 1)]
            /\ UNCHANGED pending
       ELSE /\ Raise(p, "die_error")
            /\ UNCHANGED acquired
    /\ UNCHANGED <<catalog, lock, config, LOCK_VALUE, snapshot_list, idx,
                   updated_snapshot_list, exit_code, lock_present, calls, removed>>

\* rename_snapshots(): one pass of the loop (rbd snap rename old new)
Rename(p) ==
    /\ pc[p] = "rename"
    /\ LET old == snapshot_list[p][idx[p]]
           new == new_name(old)
       IN  IF ~issues_commands(DRYRUN)
           THEN /\ idx' = [idx EXCEPT ![p] = @ + 1]
                /\ pc' = [pc EXCEPT ![p] = AfterRename(p, idx[p] + 1)]
                /\ UNCHANGED <<catalog, calls, pending>>
           ELSE /\ calls' = [calls EXCEPT ![p] = @ + 1]
                /\ IF old \in catalog /\ new \notin catalog
                   THEN /\ catalog' = (catalog \ {old}) \cup {new}
                        /\ idx' = [idx EXCEPT ![p] = @ + 1]
                        /\ pc' = [pc EXCEPT ![p] = AfterRename(p, idx[p] + 1)]
                        /\ UNCHANGED pending
                   ELSE /\ Raise(p, "die_error")
                        /\ UNCHANGED <<catalog, idx>>
    /\ UNCHANGED <<lock, config, LOCK_VALUE, snapshot_list, updated_snapshot_list,
                   exit_code, lock_present, race_lost, acquired, removed>>

\* create_snapshot(): rbd snap create
CreateSnapshot(p) ==
    /\ pc[p] = "create"
    /\ IF ~issues_commands(DRYRUN)
       THEN /\ pc' = [pc EXCEPT ![p] = "cleanup_list"]
            /\ UNCHANGED <<catalog, calls, pending>>
       ELSE /\ calls' = [calls EXCEPT ![p] = @ + 1]
            /\ IF snapshot_name \notin catalog
               THEN /\ catalog' = catalog \cup {snapshot_name}
                    /\ pc' = [pc EXCEPT ![p] = "cleanup_list"]
                    /\ UNCHANGED pending
               ELSE /\ Raise(p, "die_error")
                    /\ UNCHANGED catalog
    /\ UNCHANGED <<lock, config, LOCK_VALUE, snapshot_list, idx, updated_snapshot_list,
                   exit_code, lock_present, race_lost, acquired, removed>>

\* cleanup(): updated_snapshot_list = list_snapshots() and the N_KEEP test
CleanupList(p) ==
    /\ pc[p] = "cleanup_list"
    /\ LET r == list_snapshots(catalog, rbd_pools)
       IN  IF r.status # "ok"
           THEN /\ Raise(p, r.status)
                /\ UNCHANGED updated_snapshot_list
           ELSE /\ updated_snapshot_list' = [updated_snapshot_list EXCEPT ![p] = r.list]
                /\ IF cleanup_skips(Len(r.list), N_KEEP)
                   THEN Raise(p, "die_ok")
                   ELSE IF r.list = <<>>
                   THEN Raise(p, "IndexError")        \* updated_snapshot_list[0]
                   ELSE IF ~issues_commands(DRYRUN)
                   THEN pc' = [pc EXCEPT ![p] = "release_get"] /\ UNCHANGED pending
                   ELSE pc' = [pc EXCEPT ![p] = "cleanup_rm"] /\ UNCHANGED pending
    /\ UNCHANGED <<catalog, lock, config, LOCK_VALUE, snapshot_list, idx,
                   exit_code, lock_present, race_lost, acquired, calls, removed>>

\* cleanup(): rbd snap rm
CleanupRemove(p) ==
    /\ pc[p] = "cleanup_rm"
    /\ LET name == snapshot_to_remove(updated_snapshot_list[p])
       IN  /\ calls' = [calls EXCEPT ![p] = @ + 1]
           /\ IF name \in catalog
              THEN /\ catalog' = catalog \ {name}
                   /\ removed' = [removed EXCEPT ![p] = @ \cup {name}]
                   /\ pc' = [pc EXCEPT ![p] = "release_get"]
                   /\ UNCHANGED pending
              ELSE /\ Raise(p, "die_error")
                   /\ UNCHANGED <<catalog, removed>>
    /\ UNCHANGED <<lock, config, LOCK_VALUE, snapshot_list, idx, updated_snapshot_list,
                   exit_code, lock_present, race_lost, acquired>>

\* finally: release_lock(): if is_our_lock() ... else die_error
ReleaseGet(p) ==
    /\ pc[p] = "release_get"
    /\ IF is_our_lock(lock, LOCK_VALUE[p])
       THEN pc' = [pc EXCEPT ![p] = "release_rm"] /\ UNCHANGED exit_code
       ELSE /\ pc' = [pc EXCEPT ![p] = "done"]
            /\ exit_code' = [exit_code EXCEPT ![p] = -1]
    /\ UNCHANGED <<catalog, lock, config, LOCK_VALUE, snapshot_list, idx,
                   updated_snapshot_list, pending, lock_present, race_lost, acquired, calls, removed>>

\* finally: release_lock(): ceph config-key rm.  On a key that is gone the
\* command may report success or an error (then run_command calls die_error).
ReleaseRemove(p) ==
    /\ pc[p] = "release_rm"
    /\ lock' = NoLock
    /\ pc' = [pc EXCEPT ![p] = "done"]
    /\ \E rm_ok \in IF lock = NoLock THEN BOOLEAN ELSE {TRUE} :
          exit_code' = [exit_code EXCEPT ![p] = IF rm_ok THEN FinalCode(p) ELSE -1]
    /\ UNCHANGED <<catalog, config, LOCK_VALUE, snapshot_list, idx, updated_snapshot_list,
                   pending, lock_present, race_lost, acquired, calls, removed>>

Step(p) ==
    \/ ListSnapshots(p)
    \/ LockExists(p)
    \/ LockCreate(p)
    \/ LockVerify(p)
    \/ Rename(p)
    \/ CreateSnapshot(p)
    \/ CleanupList(p)
    \/ CleanupRemove(p)
    \/ ReleaseGet(p)
    \/ ReleaseRemove(p)

\* Concurrent invocations (cron jobs on several hosts), each started once,
\* at any time.
Invoke(p) == pc[p] = "idle" /\ Start(p)

Next == \E p \in Procs : Invoke(p) \/ Step(p)

Spec == Init /\ [][Next]_vars

\* Invocations one after another, without end: a new one starts when none
\* is running.
StartAlone(p) == (\A q \in Procs : Terminated(q)) /\ Start(p)

NextSeq == \E p \in Procs : StartAlone(p) \/ Step(p)

SpecSeq == Init /\ [][NextSeq]_vars

\* Every started invocation runs to its exit, and cron keeps scheduling.
FairSpecSeq == SpecSeq /\ WF_vars(NextSeq)

\* ------------------------------------------------------------ environment
\* An operator creates, by hand, a snapshot whose name ends with SUFFIX but
\* does not start with a number (rbd snap create pool/image@manual_DAILY).
ManualSnapshot ==
    /\ BadName \notin catalog
    /\ catalog' = catalog \cup {BadName}
    /\ UNCHANGED <<lock, config, pc, LOCK_VALUE, snapshot_list, idx, updated_snapshot_list,
                   pending, exit_code, lock_present, race_lost, acquired, calls, removed>>

NextDrift == Next \/ ManualSnapshot

\* Concurrent invocations while snapshots are also made by hand.
SpecDrift == Init /\ [][NextDrift]_vars

\* The process of a running invocation is killed (signal, power loss): the
\* finally clause does not run.
Kill(p) ==
    /\ ~Terminated(p) /\ pc[p] # "killed"
    /\ pc' = [pc EXCEPT ![p] = "killed"]
    /\ UNCHANGED <<catalog, lock, config, LOCK_VALUE, snapshot_list, idx,
                   updated_snapshot_list, pending, exit_code, lock_present, race_lost,
                   acquired, calls, removed>>

\* the key holds the token of a killed invocation
Orphaned == \E p \in Procs : pc[p] = "killed" /\ lock = LOCK_VALUE[p]

\* An operator clears an orphaned lock by hand (ceph config-key rm).
ManualUnlock ==
    /\ Orphaned
    /\ lock' = NoLock
    /\ UNCHANGED <<catalog, config, pc, LOCK_VALUE, snapshot_list, idx,
                   updated_snapshot_list, pending, exit_code, lock_present, race_lost,
                   acquired, calls, removed>>

NextKill == Next \/ (\E p \in Procs : Kill(p)) \/ ManualUnlock

\* Concurrent invocations, any of which may be killed.
SpecKill == Init /\ [][NextKill]_vars

\* Invocations one after another, each started once, any of which may be
\* killed: the next one starts when the others have ended or were killed.
StartAfter(p) ==
    /\ pc[p] = "idle"
    /\ \A q \in Procs : Terminated(q) \/ pc[q] = "killed"
    /\ Start(p)

NextSeqKill == (\E p \in Procs : StartAfter(p) \/ Step(p) \/ Kill(p)) \/ ManualUnlock

SpecSeqKill == Init /\ [][NextSeqKill]_vars

\* ------------------------------------------------------------ vocabulary
\* the invocation holds the lock it verified and is working on snapshots
InCritical(p) == acquired[p] /\ pc[p] \in {"rename", "create", "cleanup_list", "cleanup_rm"}

Range(list) == {list[i] : i \in 1..Len(list)}

Counters(S) == {s_number(s) : s \in S}

\* matching snapshots of the volume
Matching == interesting(catalog)

Min(a, b) == IF a <= b THEN a ELSE b

\* the try block of p ended without a fatal error and p is in release_lock
BodyDone(p) ==
    /\ acquired[p] /\ ~DRYRUN
    /\ pc[p] \in {"release_get", "release_rm"}
    /\ pending[p] \in {"none", "die_ok"}

\* ------------------------------------------------------------------ C1
\* C1: mutual exclusion: at most one invocation at a time is between its
\* verified acquire_lock and its release_lock (renaming, creating or removing
\* snapshots).
CounterexampleC1 ==
    \A p \in Procs : \A q \in Procs : p # q => ~(InCritical(p) /\ InCritical(q))

\* ------------------------------------------------------------------ C2
\* C2: an invocation whose existence check found the lock key present with
\* another invocation's token issues no rename, create or remove command in
\* its run and never passes acquire_lock.
TheoremC2 ==
    \A p \in Procs : lock_present[p] =>
        /\ calls[p] = 0
        /\ ~acquired[p]
        /\ pc[p] \in {"release_get", "release_rm", "done"}

WitnessC2 ==
    \E p \in Procs : \E q \in Procs :
        /\ lock_present[p] /\ pc[p] = "done"
        /\ InCritical(q) /\ calls[q] > 0

\* ------------------------------------------------------------------ C3
\* C3: an invocation that found the lock held by another terminates with
\* the success exit status; the release step does not turn it into an error.
CounterexampleC3 ==
    \A p \in Procs : (pc[p] = "done" /\ lock_present[p]) => ExitStatus(exit_code[p]) = 0

\* ------------------------------------------------------------------ C4
\* C4: no invocation's own token is stored after that invocation has exited,
\* and once every invocation has terminated the lock key is absent.
TheoremC4 ==
    /\ \A p \in Procs : pc[p] = "done" => lock # LOCK_VALUE[p]
    /\ (\A p \in Procs : Terminated(p)) => lock = NoLock

WitnessC4 ==
    /\ \A p \in Procs : pc[p] = "done"
    /\ \E p \in Procs : acquired[p] /\ pending[p] = "none"
    /\ \E p \in Procs : pending[p] = "die_error"

\* ------------------------------------------------------------------ C5
\* C5: when the matching snapshots have counters {0..N-1}, then after
\* rename_snapshots the counters are exactly {1..N}, and after
\* create_snapshot they are exactly {0..N}: N+1 snapshots, no gaps, no
\* duplicates (outside dry-run mode, which issues no command).
GapFree(list) == Counters(Range(list)) = 0..(Len(list) - 1)

TheoremC5 ==
    \A p \in Procs : (~DRYRUN /\ GapFree(snapshot_list[p])) =>
        LET N == Len(snapshot_list[p]) IN
        /\ pc[p] = "create" =>
              Counters(Matching) = 1..N /\ Cardinality(Matching) = N
        /\ pc[p] \in {"cleanup_list", "cleanup_rm"} =>
              Counters(Matching) = 0..N /\ Cardinality(Matching) = N + 1

WitnessC5 ==
    \E p \in Procs :
        /\ ~DRYRUN /\ pc[p] = "cleanup_list"
        /\ GapFree(snapshot_list[p]) /\ Len(snapshot_list[p]) >= 2

\* ------------------------------------------------------------------ C6
\* C6: in an uninterrupted run the list rotated is in strictly descending
\* counter order, and at every rename the snapshot renamed exists and its
\* target name counter+1 is the name of no existing snapshot.
Descending(list) ==
    \A i \in 1..Len(list) : \A j \in 1..Len(list) :
        i < j => s_number(list[i]) > s_number(list[j])

TheoremC6 ==
    \A p \in Procs :
        /\ Descending(snapshot_list[p])
        /\ (pc[p] = "rename" /\ ~DRYRUN) =>
              /\ snapshot_list[p][idx[p]] \in catalog
              /\ new_name(snapshot_list[p][idx[p]]) \notin catalog
        /\ acquired[p] => pending[p] # "die_error"     \* no command of the run failed

WitnessC6 ==
    \E p \in Procs :
        /\ pc[p] = "rename" /\ ~DRYRUN /\ idx[p] = 2
        /\ s_number(snapshot_list[p][1]) = s_number(snapshot_list[p][2]) + 1

\* ------------------------------------------------------------------ C7
\* C7: retention removes at most one snapshot per run: nothing when the
\* post-rotation list is shorter than N_KEEP (and the run ends with the
\* success status), otherwise exactly the snapshot with the highest counter,
\* also when the list is longer than N_KEEP by more than one.
Highest(S) == CHOOSE s \in S : \A t \in S : s_number(t) <= s_number(s)

\* p ran its try block to the end of cleanup() (outside dry-run mode)
RanCleanup(p) ==
    /\ acquired[p] /\ ~DRYRUN
    /\ pc[p] \in {"release_get", "release_rm", "done"}
    /\ pending[p] \in {"none", "die_ok"}

CounterexampleC8 ==
    \A p \in Procs :
        (BodyDone(p) /\ N_KEEP >= 1 /\ Len(snapshot_list[p]) <= N_KEEP) =>
            Cardinality(Matching) = Min(Len(snapshot_list[p]) + 1, N_KEEP)

\* ------------------------------------------------------------------ C9
\* C9: retention removes a snapshot only when the post-rotation number of
\* matching snapshots is strictly greater than N_KEEP.
CounterexampleC9 ==
    \A p \in Procs : removed[p] # {} => Len(updated_snapshot_list[p]) > N_KEEP

\* ------------------------------------------------------------------ C10
\* C10 as stated: once the number of matching snapshots exceeds N_KEEP + 1,
\* successful sequential runs eventually leave exactly N_KEEP of them.
Healthy == ~DRYRUN /\ POOL \in rbd_pools /\ BadName \notin catalog

Quiescent == \A p \in Procs : Terminated(p)

CounterexampleC10 ==
    (Quiescent /\ Healthy /\ N_KEEP >= 1 /\ Cardinality(Matching) > N_KEEP + 1)
        ~> (\E p \in Procs : BodyDone(p) /\ Cardinality(Matching) = N_KEEP)

\* C10 as amended: a successful run that found more than N_KEEP + 1 matching
\* snapshots leaves as many as it found (one created, one removed), so the
\* number does not come back to N_KEEP.
TheoremC10 ==
    \A p \in Procs :
        (BodyDone(p) /\ Len(snapshot_list[p]) > N_KEEP + 1) =>
            /\ Cardinality(Matching) = Len(snapshot_list[p])
            /\ Cardinality(Matching) > N_KEEP + 1

WitnessC10 ==
    \E p \in Procs :
        /\ BodyDone(p) /\ Len(snapshot_list[p]) > N_KEEP + 1
        /\ removed[p] # {} /\ N_KEEP >= 1

\* ------------------------------------------------------------------ C11
\* C11: when release_lock re-reads a stored value that is not the caller's
\* token (another token, or no key), it leaves the stored value as it is,
\* issues no lock_remove and ends the process with the not-owner error.
TheoremC11 ==
    [][\A p \in Procs :
          (pc[p] = "release_get" /\ pc'[p] # "release_get" /\ lock # LOCK_VALUE[p]) =>
              /\ lock' = lock
              /\ pc'[p] = "done"
              /\ ExitStatus(exit_code'[p]) # 0]_vars

WitnessC11 ==
    \E p \in Procs :
        /\ pc[p] = "done" /\ ExitStatus(exit_code[p]) # 0
        /\ lock \notin {NoLock, LOCK_VALUE[p]}
        /\ acquired[p]

\* ------------------------------------------------------------------ C12
\* C12: in runs one after another, a run that finds the counters {0..k-1}
\* (possibly none) and completes leaves counters {0..k'-1}: unique, no gaps.
Completed(p) ==
    /\ acquired[p]
    /\ pc[p] \in {"release_get", "release_rm"}
    /\ pending[p] \in {"none", "die_ok"}

TheoremC12 ==
    \A p \in Procs : (Completed(p) /\ GapFree(snapshot_list[p])) =>
        /\ Counters(Matching) = 0..(Cardinality(Matching) - 1)
        /\ \A s \in Matching : s.numeric

WitnessC12 ==
    \E p \in Procs :
        /\ Completed(p) /\ ~DRYRUN /\ GapFree(snapshot_list[p])
        /\ Len(snapshot_list[p]) >= 2 /\ removed[p] # {}

\* ------------------------------------------------------------------ C13
\* C13: every run that hits a fatal error (unknown pool, lock race lost,
\* failed external command: die_error; catalog parse error at either catalog
\* read: ValueError) ends with a failure exit status.
FatalError(p) == pending[p] \in {"die_error", "ValueError"}

CounterexampleC13 ==
    \A p \in Procs : (pc[p] = "done" /\ FatalError(p)) => ExitStatus(exit_code[p]) # 0

\* ------------------------------------------------------------------ C14
\* C14: in dry-run mode no rename, create or remove command is issued and
\* no step of a run changes the set of snapshot names.
TheoremC14 ==
    [][DRYRUN =>
          /\ catalog' = catalog
          /\ \A p \in Procs : calls'[p] = 0 /\ removed'[p] = {}]_vars

WitnessC14 ==
    \E p \in Procs :
        /\ DRYRUN /\ pc[p] = "done" /\ acquired[p] /\ pending[p] = "none"
        /\ Len(snapshot_list[p]) >= 2
        /\ Len(updated_snapshot_list[p]) >= N_KEEP

\* ------------------------------------------------------------------ C15
\* C15: the lock_remove of release_lock deletes the key only when the value
\* stored at that moment is the releasing invocation's own token.
CounterexampleC15 ==
    [][\A p \in Procs :
          (pc[p] = "release_rm" /\ pc'[p] = "done" /\ lock # NoLock) =>
              lock = LOCK_VALUE[p]]_vars

\* ------------------------------------------------------------------ C17
\* C17: an invocation whose re-read after lock_create returns another value
\* than its token aborts with a fatal error: no second lock_create, no
\* rename, create or remove, no lock_remove (the other's lock stays).
TheoremC17 ==
    \A p \in Procs : race_lost[p] =>
        /\ ~acquired[p] /\ calls[p] = 0
        /\ pending[p] = "die_error"
        /\ pc[p] \in {"release_get", "done"}
        /\ pc[p] = "done" => ExitStatus(exit_code[p]) # 0

WitnessC17 ==
    \E p \in Procs : \E q \in Procs :
        /\ race_lost[p] /\ pc[p] = "done"
        /\ lock = LOCK_VALUE[q] /\ InCritical(q)

\* ------------------------------------------------------------------ C18
\* C18: after the first rename that fails, the run issues no further
\* rename, no create and no remove, ends with a failure status, and its
\* token is not left in the lock key.
RenameFailed(p) ==
    acquired[p] /\ pending[p] = "die_error" /\ idx[p] <= Len(snapshot_list[p])

TheoremC18 ==
    \A p \in Procs : RenameFailed(p) =>
        /\ calls[p] = idx[p]
        /\ removed[p] = {}
        /\ pc[p] \in {"release_get", "release_rm", "done"}
        /\ pc[p] = "done" =>
              ExitStatus(exit_code[p]) # 0 /\ lock # LOCK_VALUE[p]

WitnessC18 ==
    \E p \in Procs :
        /\ RenameFailed(p) /\ pc[p] = "done" /\ idx[p] = 2
        /\ lock = NoLock

\* ------------------------------------------------------------------ C16
\* q found counters {0..N-1}, N >= 1, renamed them all and was killed before
\* create_snapshot; p then read the catalog q left (counters {1..N}) and
\* ran to the end of cleanup(); nobody else touched the snapshots.
Interrupted(q) ==
    /\ pc[q] = "killed" /\ acquired[q] /\ ~DRYRUN
    /\ GapFree(snapshot_list[q]) /\ Len(snapshot_list[q]) >= 1
    /\ idx[q] > Len(snapshot_list[q]) /\ calls[q] = Len(snapshot_list[q])

NextRunAfter(q, p) ==
    /\ p # q /\ Interrupted(q) /\ Completed(p)
    /\ Range(snapshot_list[p]) = {new_name(s) : s \in Range(snapshot_list[q])}
    /\ \A r \in Procs \ {p, q} : calls[r] = 0

OrphanOf(q) == pc[q] = "killed" /\ acquired[q] /\ lock = LOCK_VALUE[q]

\* C19 as stated: once an invocation is killed between acquiring and
\* releasing the lock, the key keeps that invocation's token until the key
\* is removed by hand: no step of any invocation changes the key.
CounterexampleC19 ==
    [][\A q \in Procs :
          OrphanOf(q) => \/ ManualUnlock
                         \/ lock' = lock]_vars

\* ------------------------------------------------------------------ C20
\* p rotates while its token is stored and every other invocation has
\* either not started or ended with status 0: an invocation that ended
\* with status 0 removed its own token, so p created the key after that
\* and the two never held the lock at the same time.
HoldsAlone(p) ==
    /\ pc[p] = "rename" /\ acquired[p] /\ lock = LOCK_VALUE[p]
    /\ \A q \in Procs \ {p} :
          \/ pc[q] = "idle"
          \/ pc[q] = "done" /\ ExitStatus(exit_code[q]) = 0

\* C20: every rename issued by a lock holder names a snapshot that still
\* exists and targets a name that no existing snapshot has, i.e. the list
\* read before acquire_lock is still the catalog when it is rotated; stated
\* here for lock holders that never overlap.
CounterexampleC20 ==
    \A p \in Procs :
        (HoldsAlone(p) /\ issues_commands(DRYRUN)) =>
            /\ snapshot_list[p][idx[p]] \in catalog
            /\ new_name(snapshot_list[p][idx[p]]) \notin catalog

====
